---------------------------- MODULE Spec2Model ----------------------------
(***************************************************************************)
(* Loan amortization backend (armaanre/greystone-backend-challenge).       *)
(*                                                                         *)
(* Two specifications share this module.                                   *)
(*   SpecEngine  the amortization engine of app/services.py as pure        *)
(*               functions applied to loan terms drawn from bounded sets.  *)
(*   Spec        the request handlers of app/routers over the stored       *)
(*               users, loans and loan shares.                             *)
(*                                                                         *)
(* Decimal arithmetic.  services.py computes with decimal.Decimal under a  *)
(* context precision of 28 significant digits.  The model keeps money as   *)
(* an integer number of "units": one cent is Unit(rate, n) units, where    *)
(* Unit is the n-th power of the denominator of the monthly rate, so that  *)
(* every intermediate value of an n-month recurrence is an integer number  *)
(* of units.  The rates of Rates have a monthly rate that is a finite      *)
(* decimal (120% -> 0.1, 300% -> 0.25, 600% -> 0.5), and within the bounds *)
(* MaxAmount and MaxTerm no intermediate value needs more than 28 digits,  *)
(* so the products, sums and differences below are the exact values the    *)
(* Decimal context produces.  The one inexact Decimal operation is the     *)
(* division in compute_monthly_payment; it is followed at once by          *)
(* to_money, and the 28-digit quotient rounds to the same cent as the      *)
(* exact quotient (an exact quotient a/b with b < 10^10 that is not on a   *)
(* half-cent boundary is at least 1/(200 b) away from it).                 *)
(***************************************************************************)
EXTENDS Integers, Sequences, FiniteSets, Bags, TLC

(***************************************************************************)
(* Bounds of the engine inputs.  Amounts are in cents.                     *)
(***************************************************************************)
MaxAmount == 40
MaxTerm == 6

VARIABLES
    engineTerms,      \* engine: the loan terms the engine is applied to
    engineSchedule,   \* engine: the schedule built for them, << >> before
    engineSummaries,  \* engine: the summaries computed from it so far
    users,        \* table users: sequence of rows, id = position
    loans,        \* table loans: sequence of rows, id = position
    shares,       \* table loan_shares: bag of rows (loan_id, user_id)
    pending,      \* bag of requests between their queries and their commit
    resp          \* the response to the request handled last

engineVars == <<engineTerms, engineSchedule, engineSummaries>>
dbVars == <<users, loans, shares>>
vars == <<engineTerms, engineSchedule, engineSummaries, users, loans, shares, pending, resp>>

\* annual_interest_rate_percent values the engine is applied to
Rates == {0, 120, 300, 600}

-----------------------------------------------------------------------------
(***************************************************************************)
(* Arithmetic helpers                                                      *)
(***************************************************************************)
RECURSIVE GCD(_, _)
GCD(a, b) == IF b = 0 THEN a ELSE GCD(b, a % b)

RECURSIVE Pow(_, _)
Pow(b, e) == IF e = 0 THEN 1 ELSE b * Pow(b, e - 1)

Max(a, b) == IF a >= b THEN a ELSE b

Min(a, b) == IF a <= b THEN a ELSE b

\* monthly_rate = Decimal(rate) / Decimal(100) / Decimal(12), as a fraction
\* in lowest terms
MonthlyRate(rate) ==
    LET g == GCD(rate, 1200)
    IN  [num |-> rate \div g, den |-> 1200 \div g]

\* units per cent for a recurrence of n months at this rate
Unit(rate, n) == Pow(MonthlyRate(rate).den, n)

\* value.quantize(TWOPLACES, rounding=ROUND_HALF_UP) of the value v/u cents:
\* the nearest whole cent, a half rounding away from zero
to_money(v, u) ==
    IF v >= 0 THEN (2 * v + u) \div (2 * u)
    ELSE -((2 * (-v) + u) \div (2 * u))

\* the fixed monthly payment, in cents
compute_monthly_payment(amount, rate, term_months) ==
    LET r == MonthlyRate(rate)
        g == Pow(r.den + r.num, term_months)     \* (1+r)^n * den^n
        d == Pow(r.den, term_months)
    IN  IF r.num = 0
        THEN to_money(amount, term_months)
        ELSE to_money(amount * r.num * g, r.den * (g - d))


-----------------------------------------------------------------------------
(***************************************************************************)
(* Schedule builder (build_amortization_schedule)                          *)
(***************************************************************************)
\* One pass of the loop body of build_amortization_schedule: the balance
\* (in units) after one more payment.
schedule_step(remaining, monthly_payment, rate, u) ==
    LET r == MonthlyRate(rate)
        interest == IF r.num = 0 THEN 0 ELSE (remaining * r.num) \div r.den
        principal_component == monthly_payment * u - interest
        clamped == IF principal_component > remaining
                   THEN remaining
                   ELSE principal_component
    IN  remaining - clamped

\* The entry the loop appends for this month, the balance after its payment
\* given in units.
LoanScheduleItem(month, remaining, monthly_payment, u) ==
    [month |-> month,
     remaining_balance |-> to_money(Max(remaining, 0), u),
     monthly_payment |-> to_money(monthly_payment, 1)]

\* Faulty variant of schedule_loop: each entry reports what was actually paid that
\* month, so a clamped month reports less than the fixed payment.
RECURSIVE schedule_loop_actual_payment(_, _, _, _, _, _, _)
schedule_loop_actual_payment(month, term_months, remaining, monthly_payment, rate, u, schedule) ==
    IF month > term_months THEN schedule
    ELSE LET after == schedule_step(remaining, monthly_payment, rate, u)
             r == MonthlyRate(rate)
             interest == (remaining * r.num) \div r.den
             paid == Min(monthly_payment * u, remaining + interest)
         IN  schedule_loop_actual_payment(month + 1, term_months, after,
                 monthly_payment, rate, u,
                 Append(schedule,
                        [month |-> month,
                         remaining_balance |-> to_money(Max(after, 0), u),
                         monthly_payment |-> to_money(paid, u)]))

\* for month in range(1, term_months + 1): ...; schedule.append(...)
RECURSIVE schedule_loop(_, _, _, _, _, _, _)
schedule_loop(month, term_months, remaining, monthly_payment, rate, u, schedule) ==
    IF month > term_months THEN schedule
    ELSE LET after == schedule_step(remaining, monthly_payment, rate, u)
         IN  schedule_loop(month + 1, term_months, after, monthly_payment, rate, u,
                 Append(schedule,
                        LoanScheduleItem(month, after, monthly_payment, u)))

build_amortization_schedule(amount, rate, term_months) ==
    LET u == Unit(rate, term_months)
        monthly_payment == compute_monthly_payment(amount, rate, term_months)
    IN  schedule_loop(1, term_months, amount * u, monthly_payment, rate, u, << >>)

-----------------------------------------------------------------------------
(***************************************************************************)
(* Summary projector (summarize_schedule_for_month)                        *)
(***************************************************************************)
\* Faulty variant of SlicePrefix: schedule[:month - 1], one month short.
SlicePrefix_one_short(schedule, month) ==
    SubSeq(schedule, 1, Min(Max(month - 1, 0), Len(schedule)))

\* schedule[:month], a Python slice: a negative stop counts from the end
SlicePrefix(schedule, month) ==
    LET n == Len(schedule)
        stop == IF month >= 0 THEN Min(month, n) ELSE Max(n + month, 0)
    IN  SubSeq(schedule, 1, stop)

\* the loop body with total_principal_paid taking the component as computed
\* rather than as clamped
summary_step_unclamped_total(acc, monthly_payment, rate, u) ==
    LET r == MonthlyRate(rate)
        interest == IF r.num = 0 THEN 0 ELSE (acc.remaining * r.num) \div r.den
        principal_component == monthly_payment * u - interest
        clamped == IF principal_component > acc.remaining
                   THEN acc.remaining
                   ELSE principal_component
    IN  [remaining |-> acc.remaining - clamped,
         total_principal_paid |-> acc.total_principal_paid + principal_component,
         total_interest_paid |-> acc.total_interest_paid + interest]

\* One pass of the loop body of summarize_schedule_for_month over the
\* accumulators (all in units).
summary_step(acc, monthly_payment, rate, u) ==
    LET r == MonthlyRate(rate)
        interest == IF r.num = 0 THEN 0 ELSE (acc.remaining * r.num) \div r.den
        principal_component == monthly_payment * u - interest
        clamped == IF principal_component > acc.remaining
                   THEN acc.remaining
                   ELSE principal_component
    IN  [remaining |-> acc.remaining - clamped,
         total_principal_paid |-> acc.total_principal_paid + clamped,
         total_interest_paid |-> acc.total_interest_paid + interest]

\* for item in schedule[:month]: ...
RECURSIVE summary_loop(_, _, _, _, _)
summary_loop(items, acc, monthly_payment, rate, u) ==
    IF items = << >> THEN acc
    ELSE summary_loop(Tail(items), summary_step(acc, monthly_payment, rate, u),
                      monthly_payment, rate, u)

summarize_schedule_for_month(schedule, month, amount, rate) ==
    LET u == Unit(rate, Len(schedule))
        monthly_payment == compute_monthly_payment(amount, rate, Len(schedule))
        acc == summary_loop(SlicePrefix(schedule, month),
                            [remaining |-> amount * u,
                             total_principal_paid |-> 0,
                             total_interest_paid |-> 0],
                            monthly_payment, rate, u)
    IN  [month |-> month,
         principal_balance |-> to_money(Max(acc.remaining, 0), u),
         total_principal_paid |-> to_money(acc.total_principal_paid, u),
         total_interest_paid |-> to_money(acc.total_interest_paid, u)]

-----------------------------------------------------------------------------
(***************************************************************************)
(* The stored state after init_db: three empty tables, nothing in flight.  *)
(***************************************************************************)
NoTerms == [amount |-> 0, rate |-> 0, term_months |-> 0]

NoResponse == [op |-> "none", status |-> 0]

EmptyDb ==
    /\ users = << >>
    /\ loans = << >>
    /\ shares = EmptyBag
    /\ pending = EmptyBag
    /\ resp = NoResponse

-----------------------------------------------------------------------------
(***************************************************************************)
(* SpecEngine: the engine applied to valid loan terms.                     *)
(***************************************************************************)
ValidTerms ==
    [amount : 1..MaxAmount, rate : Rates, term_months : 1..MaxTerm]

EngineInit ==
    /\ engineTerms \in ValidTerms
    /\ engineSchedule = << >>
    /\ engineSummaries = {}
    /\ EmptyDb

EngineBuild ==
    /\ engineSchedule = << >>
    /\ engineSchedule' = build_amortization_schedule(
           engineTerms.amount, engineTerms.rate, engineTerms.term_months)
    /\ UNCHANGED <<engineTerms, engineSummaries, users, loans, shares, pending, resp>>

EngineSummarize ==
    /\ engineSchedule # << >>
    /\ \E month \in 1..engineTerms.term_months :
          engineSummaries' = engineSummaries \cup
              {summarize_schedule_for_month(engineSchedule, month, engineTerms.amount,
                                            engineTerms.rate)}
    /\ UNCHANGED <<engineTerms, engineSchedule, users, loans, shares, pending, resp>>

EngineNext == EngineBuild \/ EngineSummarize

SpecEngine == EngineInit /\ [][EngineNext]_vars

-----------------------------------------------------------------------------
(***************************************************************************)
(* Spec: the request handlers over the stored tables.                      *)
(*                                                                         *)
(* The handlers are plain (non-async) functions, which the framework runs  *)
(* on a thread pool, each with a database session of its own: requests     *)
(* interleave.  A handler that only reads, or that writes without reading  *)
(* what it writes first, is one action (rows are never updated or deleted, *)
(* so what its queries see is what one of them alone would see).           *)
(* create_user and share_loan query and then insert; each is two actions,  *)
(* the queries up to the insert and the commit, and a request between the  *)
(* two is held in pending.  A handler's response is held in resp until    *)
(* the framework has sent it (send_response); the next handler step runs   *)
(* after that, so resp always answers the state it is read in.             *)
(***************************************************************************)
MaxLoans == 2
MaxInflight == 2

\* request inputs
Emails == {"ann@x.io", "bob@x.io"}
LoanPayloads ==
    {[amount |-> 25, annual_interest_rate |-> 120, term_months |-> 2],
     [amount |-> 0, annual_interest_rate |-> 120, term_months |-> 2],
     [amount |-> 25, annual_interest_rate |-> -120, term_months |-> 2],
     [amount |-> 25, annual_interest_rate |-> 120, term_months |-> 0]}
Months == {0, 2, 3}
LoanIds == 0..MaxLoans

\* secrets.token_urlsafe(24): 192 random bits, a token no other request
\* draws.  The token of a create_user request is named after the request's
\* email; of two requests with one email at most one is ever stored.
generate_api_key(email) == <<"key", email>>

\* the X-API-Key header of a request: missing, or some token
NoKey == <<"key">>
ApiKeys == {generate_api_key(e) : e \in Emails} \cup {NoKey}

Rows(table) == {table[i] : i \in 1..Len(table)}

\* db.query(User).filter(User.api_key == x_api_key).first() finds a user
Authenticated(key) ==
    /\ key # NoKey
    /\ \E u \in Rows(users) : u.api_key = key

\* get_current_user, for a key it accepts
get_current_user(key) == CHOOSE u \in Rows(users) : u.api_key = key

\* db.query(Loan).filter(Loan.id == loan_id).first() finds a loan
LoanExists(loan_id) == loan_id \in 1..Len(loans)

\* db.query(User).filter(User.email == email).first() finds a user
EmailRegistered(email) == \E u \in Rows(users) : u.email = email

UserByEmail(email) == CHOOSE u \in Rows(users) : u.email = email

\* db.query(LoanShare).filter(loan_id == ..., user_id == ...).first()
ShareExists(loan_id, user_id) ==
    BagIn([loan_id |-> loan_id, user_id |-> user_id], shares)

\* Faulty variant of assert_can_access_loan: the share query filters on the user
\* alone, so a share of any loan opens every loan.
assert_can_access_loan_any_share(loan, user) ==
    \/ loan.owner_id = user.id
    \/ \E l \in 1..Len(loans) : ShareExists(l, user.id)

\* TRUE when assert_can_access_loan returns, FALSE when it raises 404
assert_can_access_loan(loan, user) ==
    \/ loan.owner_id = user.id
    \/ ShareExists(loan.id, user.id)

\* Faulty variant of LoanCreateValid: amount ge 0 in place of gt 0.
LoanCreateValid_amount_ge_zero(payload) ==
    /\ payload.amount >= 0
    /\ payload.annual_interest_rate >= 0
    /\ payload.term_months >= 1

\* LoanCreate: amount gt 0, annual_interest_rate ge 0, term_months positive
LoanCreateValid(payload) ==
    /\ payload.amount > 0
    /\ payload.annual_interest_rate >= 0
    /\ payload.term_months >= 1

\* the response of the handler that returned last has been sent
Idle == resp = NoResponse

\* the framework sends the response
send_response ==
    /\ ~Idle
    /\ resp' = NoResponse
    /\ UNCHANGED <<engineVars, dbVars, pending>>

-----------------------------------------------------------------------------
\* POST /users/, up to the insert
create_user_check(email) ==
    /\ Idle
    /\ IF EmailRegistered(email)
       THEN /\ resp' = [op |-> "create_user", status |-> 400, email |-> email]
            /\ UNCHANGED pending
       ELSE /\ BagCardinality(pending) < MaxInflight
            /\ pending' = pending (+) SetToBag({[op |-> "create_user",
                              email |-> email,
                              api_key |-> generate_api_key(email)]})
            /\ UNCHANGED resp
    /\ UNCHANGED <<engineVars, dbVars>>

\* create_user's commit on a users table whose email column is not unique
create_user_commit_no_unique(p) ==
    /\ Idle
    /\ BagIn(p, pending)
    /\ p.op = "create_user"
    /\ pending' = pending (-) SetToBag({p})
    /\ LET user == [id |-> Len(users) + 1, email |-> p.email,
                    api_key |-> p.api_key]
       IN  /\ users' = Append(users, user)
           /\ resp' = [op |-> "create_user", status |-> 201,
                       email |-> p.email, body |-> user]
    /\ UNCHANGED <<engineVars, loans, shares>>

\* POST /users/, db.add(user); db.commit(): users.email is unique, and a
\* commit that breaks it raises, which the framework answers with 500
create_user_commit(p) ==
    /\ Idle
    /\ BagIn(p, pending)
    /\ p.op = "create_user"
    /\ pending' = pending (-) SetToBag({p})
    /\ IF EmailRegistered(p.email)
       THEN /\ resp' = [op |-> "create_user", status |-> 500, email |-> p.email]
            /\ UNCHANGED users
       ELSE LET user == [id |-> Len(users) + 1, email |-> p.email,
                         api_key |-> p.api_key]
            IN  /\ users' = Append(users, user)
                /\ resp' = [op |-> "create_user", status |-> 201,
                            email |-> p.email, body |-> user]
    /\ UNCHANGED <<engineVars, loans, shares>>

\* POST /loans/.  The handler stores float(payload.amount) and
\* float(payload.annual_interest_rate); the readers take them back with
\* Decimal(str(...)).  A double holds 15 significant decimal digits
\* exactly and str gives the shortest decimal that reads back as the same
\* double, so the amounts and rates of LoanPayloads (at most 4 digits) come
\* back as the values sent: the row holds the payload's values.
create_loan(key, payload) ==
    /\ Idle
    /\ IF ~Authenticated(key)
       THEN /\ resp' = [op |-> "create_loan", status |-> 401, key |-> key,
                        payload |-> payload]
            /\ UNCHANGED loans
       ELSE IF ~LoanCreateValid(payload)
       THEN /\ resp' = [op |-> "create_loan", status |-> 422, key |-> key,
                        payload |-> payload]
            /\ UNCHANGED loans
       ELSE /\ Len(loans) < MaxLoans
            /\ LET loan == [id |-> Len(loans) + 1,
                            owner_id |-> get_current_user(key).id,
                            amount |-> payload.amount,
                            annual_interest_rate |-> payload.annual_interest_rate,
                            term_months |-> payload.term_months]
               IN  /\ loans' = Append(loans, loan)
                   /\ resp' = [op |-> "create_loan", status |-> 201, key |-> key,
                               payload |-> payload, body |-> loan]
    /\ UNCHANGED <<engineVars, users, shares, pending>>

\* the loans list_loans returns to a user: owned, or shared with the user
list_loans_body(user) ==
    LET owned == {l \in Rows(loans) : l.owner_id = user.id}
        shared_ids == {i \in 1..Len(loans) : ShareExists(i, user.id)}
    IN  owned \cup {l \in Rows(loans) : l.id \in shared_ids}

\* GET /loans/
list_loans(key) ==
    /\ Idle
    /\ resp' = IF ~Authenticated(key)
               THEN [op |-> "list_loans", status |-> 401, key |-> key]
               ELSE [op |-> "list_loans", status |-> 200, key |-> key,
                     body |-> list_loans_body(get_current_user(key))]
    /\ UNCHANGED <<engineVars, dbVars, pending>>

get_schedule_response(key, loan_id) ==
    LET req == [op |-> "get_schedule", key |-> key, loan_id |-> loan_id]
    IN  IF ~Authenticated(key) THEN req @@ [status |-> 401]
        ELSE IF ~(loan_id > 0) THEN req @@ [status |-> 422]
        ELSE IF ~LoanExists(loan_id) THEN req @@ [status |-> 404]
        ELSE IF ~assert_can_access_loan(loans[loan_id], get_current_user(key))
        THEN req @@ [status |-> 404]
        ELSE req @@ [status |-> 200,
                     body |-> build_amortization_schedule(
                                  loans[loan_id].amount,
                                  loans[loan_id].annual_interest_rate,
                                  loans[loan_id].term_months)]

\* Faulty variant of get_schedule: the handler adds a copy of the loan it
\* read to the session and commits it.
get_schedule_commits_copy(key, loan_id) ==
    /\ Idle
    /\ resp' = get_schedule_response(key, loan_id)
    /\ loans' = IF resp'.status = 200
                THEN Append(loans, [loans[loan_id] EXCEPT !.id = Len(loans) + 1])
                ELSE loans
    /\ UNCHANGED <<engineVars, users, shares, pending>>

\* GET /loans/{loan_id}/schedule
get_schedule(key, loan_id) ==
    /\ Idle
    /\ resp' = get_schedule_response(key, loan_id)
    /\ UNCHANGED <<engineVars, dbVars, pending>>

\* Faulty variant of get_summary_response: the month > loan.term_months test is
\* left out.
get_summary_response_no_term_check(key, loan_id, month) ==
    LET req == [op |-> "get_summary", key |-> key, loan_id |-> loan_id,
                month |-> month]
    IN  IF ~Authenticated(key) THEN req @@ [status |-> 401, engine |-> << >>]
        ELSE IF ~(loan_id > 0 /\ month > 0)
        THEN req @@ [status |-> 422, engine |-> << >>]
        ELSE IF ~LoanExists(loan_id) THEN req @@ [status |-> 404, engine |-> << >>]
        ELSE IF ~assert_can_access_loan(loans[loan_id], get_current_user(key))
        THEN req @@ [status |-> 404, engine |-> << >>]
        ELSE LET loan == loans[loan_id]
                 sched == build_amortization_schedule(loan.amount,
                              loan.annual_interest_rate, loan.term_months)
             IN  req @@ [status |-> 200,
                         engine |-> <<[month |-> month,
                                       term_months |-> Len(sched)]>>,
                         body |-> summarize_schedule_for_month(sched, month,
                                      loan.amount, loan.annual_interest_rate)]

\* The response of get_summary; engine holds the arguments of its call of
\* summarize_schedule_for_month (the month and the schedule's length), and
\* is empty when the handler answers without calling it.
get_summary_response(key, loan_id, month) ==
    LET req == [op |-> "get_summary", key |-> key, loan_id |-> loan_id,
                month |-> month]
    IN  IF ~Authenticated(key) THEN req @@ [status |-> 401, engine |-> << >>]
        ELSE IF ~(loan_id > 0 /\ month > 0)
        THEN req @@ [status |-> 422, engine |-> << >>]
        ELSE IF ~LoanExists(loan_id) THEN req @@ [status |-> 404, engine |-> << >>]
        ELSE IF ~assert_can_access_loan(loans[loan_id], get_current_user(key))
        THEN req @@ [status |-> 404, engine |-> << >>]
        ELSE IF month > loans[loan_id].term_months
        THEN req @@ [status |-> 400, engine |-> << >>]
        ELSE LET loan == loans[loan_id]
                 sched == build_amortization_schedule(loan.amount,
                              loan.annual_interest_rate, loan.term_months)
             IN  req @@ [status |-> 200,
                         engine |-> <<[month |-> month,
                                       term_months |-> Len(sched)]>>,
                         body |-> summarize_schedule_for_month(sched, month,
                                      loan.amount, loan.annual_interest_rate)]

\* GET /loans/{loan_id}/summary?month=
get_summary(key, loan_id, month) ==
    /\ Idle
    /\ resp' = get_summary_response(key, loan_id, month)
    /\ UNCHANGED <<engineVars, dbVars, pending>>

\* Faulty variant of share_loan_status: the owner test is left out.
share_loan_status_no_owner_check(key, loan_id, email) ==
    IF ~Authenticated(key) THEN 401
    ELSE IF ~LoanExists(loan_id) THEN 404
    ELSE IF ~EmailRegistered(email) THEN 404
    ELSE IF UserByEmail(email).id = get_current_user(key).id THEN 400
    ELSE IF ShareExists(loan_id, UserByEmail(email).id) THEN 204
    ELSE 0

\* What share_loan's queries decide: the status it raises or returns with,
\* or 0 when it goes on to insert a share.
share_loan_status(key, loan_id, email) ==
    IF ~Authenticated(key) THEN 401
    ELSE IF ~LoanExists(loan_id) THEN 404
    ELSE IF loans[loan_id].owner_id # get_current_user(key).id THEN 403
    ELSE IF ~EmailRegistered(email) THEN 404
    ELSE IF UserByEmail(email).id = get_current_user(key).id THEN 400
    ELSE IF ShareExists(loan_id, UserByEmail(email).id) THEN 204
    ELSE 0

\* POST /loans/{loan_id}/share, up to the insert
share_loan_check(key, loan_id, email) ==
    LET status == share_loan_status(key, loan_id, email)
    IN  /\ Idle
        /\ IF status # 0
           THEN /\ resp' = [op |-> "share_loan", status |-> status, key |-> key,
                            loan_id |-> loan_id, email |-> email]
                /\ UNCHANGED pending
           ELSE /\ BagCardinality(pending) < MaxInflight
                /\ pending' = pending (+) SetToBag({[op |-> "share_loan",
                                  key |-> key, email |-> email,
                                  loan_id |-> loan_id,
                                  user_id |-> UserByEmail(email).id]})
                /\ UNCHANGED resp
        /\ UNCHANGED <<engineVars, dbVars>>

\* POST /loans/{loan_id}/share, db.add(share); db.commit()
share_loan_commit(p) ==
    /\ Idle
    /\ BagIn(p, pending)
    /\ p.op = "share_loan"
    /\ pending' = pending (-) SetToBag({p})
    /\ shares' = shares (+) SetToBag({[loan_id |-> p.loan_id,
                                       user_id |-> p.user_id]})
    /\ resp' = [op |-> "share_loan", status |-> 204, key |-> p.key,
                loan_id |-> p.loan_id, email |-> p.email]
    /\ UNCHANGED <<engineVars, users, loans>>

Init ==
    /\ engineTerms = NoTerms
    /\ engineSchedule = << >>
    /\ engineSummaries = {}
    /\ EmptyDb

Next ==
    \/ \E email \in Emails : create_user_check(email)
    \/ \E p \in BagToSet(pending) : create_user_commit(p)
    \/ \E key \in ApiKeys :
          \E payload \in LoanPayloads : create_loan(key, payload)
    \/ \E key \in ApiKeys : list_loans(key)
    \/ \E key \in ApiKeys, loan_id \in LoanIds : get_schedule(key, loan_id)
    \/ \E key \in ApiKeys, loan_id \in LoanIds, month \in Months :
          get_summary(key, loan_id, month)
    \/ \E key \in ApiKeys, loan_id \in LoanIds, email \in Emails :
          share_loan_check(key, loan_id, email)
    \/ \E p \in BagToSet(pending) : share_loan_commit(p)
    \/ send_response

Spec == Init /\ [][Next]_vars

-----------------------------------------------------------------------------
(***************************************************************************)
(* Properties of the engine, checked under SpecEngine.                     *)
(***************************************************************************)
Built == engineSchedule # << >>

LastEntry == engineSchedule[Len(engineSchedule)]

\* C1: for any valid loan terms the last entry of the schedule has
\* remaining_balance exactly 0.00.
TerminalPayoff ==
    Built => LastEntry.remaining_balance = 0

\* C2: the remaining_balance values of a schedule are non-increasing:
\* for all positions i < j, schedule[i] >= schedule[j].
MonotonicBalance ==
    \A i, j \in 1..Len(engineSchedule) :
        i < j => engineSchedule[i].remaining_balance
                     >= engineSchedule[j].remaining_balance

\* C3: for any month in 1..term_months the summary's principal_balance
\* equals the remaining_balance of schedule entry month-1 (position month
\* here, sequences being 1-indexed).
SummaryAgreesWithSchedule ==
    \A s \in engineSummaries :
        s.principal_balance = engineSchedule[s.month].remaining_balance

\* C3 witness: a summary of a later month of an interest-bearing loan whose
\* balance is still positive, beside the schedule it is compared with.
SummaryAgreesWitness ==
    /\ Built
    /\ engineTerms.rate # 0
    /\ \E s \in engineSummaries :
          /\ s.month >= 2
          /\ s.principal_balance > 0
          /\ s.principal_balance < engineTerms.amount

\* C4: for months month1 < month2 the summaries satisfy
\* total_principal_paid(month2) >= total_principal_paid(month1) and
\* total_interest_paid(month2) >= total_interest_paid(month1).
CumulativeMonotone ==
    \A s1, s2 \in engineSummaries :
        s1.month < s2.month =>
            /\ s2.total_principal_paid >= s1.total_principal_paid
            /\ s2.total_interest_paid >= s1.total_interest_paid

\* C5: the summary for month = term_months has principal_balance 0.00 and
\* total_principal_paid equal to the principal within one cent.
FinalSummaryPaysOff ==
    \A s \in engineSummaries :
        s.month = engineTerms.term_months =>
            /\ s.principal_balance = 0
            /\ s.total_principal_paid - engineTerms.amount \in -1..1

\* C6: at annual rate 0 every entry's monthly_payment is
\* round_to_money(principal / term_months), the remaining_balance after
\* month k is round_to_money(principal * (term_months - k) / term_months)
\* for every k before the last month, and the final remaining_balance is 0.
ZeroRateExactSplit ==
    (Built /\ engineTerms.rate = 0) =>
        LET n == engineTerms.term_months
        IN  /\ \A k \in 1..n :
                  engineSchedule[k].monthly_payment
                      = to_money(engineTerms.amount, n)
            /\ \A k \in 1..(n - 1) :
                  engineSchedule[k].remaining_balance
                      = to_money(engineTerms.amount * (n - k), n)
            /\ LastEntry.remaining_balance = 0

\* C7: the schedule has exactly term_months entries, their month fields are
\* 1, 2, ..., term_months in order, and every entry carries the one fixed
\* payment of compute_monthly_payment, the final clamped month included.
ScheduleShape ==
    Built =>
        /\ Len(engineSchedule) = engineTerms.term_months
        /\ \A k \in 1..Len(engineSchedule) :
              /\ engineSchedule[k].month = k
              /\ engineSchedule[k].monthly_payment
                     = compute_monthly_payment(engineTerms.amount,
                           engineTerms.rate, engineTerms.term_months)

\* C7 witness: a schedule whose final payment was clamped: at rate 0 the
\* balance before the last month is positive and below the fixed payment.
ScheduleShapeWitness ==
    /\ Built
    /\ engineTerms.rate = 0
    /\ Len(engineSchedule) >= 2
    /\ LET before == engineSchedule[Len(engineSchedule) - 1]
       IN  /\ before.remaining_balance > 0
           /\ before.remaining_balance < LastEntry.monthly_payment
    /\ LastEntry.remaining_balance = 0

-----------------------------------------------------------------------------
(***************************************************************************)
(* Properties of the request handlers, checked under Spec.                 *)
(***************************************************************************)
\* user is loan's owner, or a LoanShare row (loan, user) exists
CanSee(user, loan) ==
    \/ loan.owner_id = user.id
    \/ BagIn([loan_id |-> loan.id, user_id |-> user.id], shares)

\* C8: an authenticated user u can see loan L (get_schedule and get_summary
\* answer 200, list_loans for u contains L) if and only if u is L's owner
\* or a LoanShare row (L, u) exists; for every other authenticated user
\* get_schedule and get_summary answer 404 and list_loans omits L.
AccessControl ==
    /\ (/\ resp.op \in {"get_schedule", "get_summary"}
        /\ Authenticated(resp.key)
        /\ LoanExists(resp.loan_id)
        /\ resp.op = "get_summary" =>
               resp.month \in 1..loans[resp.loan_id].term_months)
       => IF CanSee(get_current_user(resp.key), loans[resp.loan_id])
          THEN resp.status = 200
          ELSE resp.status = 404
    /\ (resp.op = "list_loans" /\ Authenticated(resp.key))
       => /\ resp.status = 200
          /\ resp.body = {l \in Rows(loans) :
                             CanSee(get_current_user(resp.key), l)}

\* C8 witness: a user reads the schedule of a loan shared with them while
\* another stored loan is neither theirs nor shared with them.
AccessControlWitness ==
    /\ resp.op = "get_schedule"
    /\ resp.status = 200
    /\ loans[resp.loan_id].owner_id # get_current_user(resp.key).id
    /\ \E l \in Rows(loans) : ~CanSee(get_current_user(resp.key), l)

\* C9: share_loan creates a share only when the caller owns the loan: a
\* caller who is not the owner (a user the loan was shared with included)
\* gets 403, an unknown target email 404, the owner's own email 400, an
\* unknown loan 404, and in each of these cases the LoanShare rows are
\* unchanged.
ShareLoanErrors ==
    [][/\ shares' # shares =>
              /\ resp'.op = "share_loan"
              /\ resp'.status = 204
              /\ loans[resp'.loan_id].owner_id = get_current_user(resp'.key).id
       /\ (resp'.op = "share_loan" /\ Authenticated(resp'.key)) =>
              LET r == resp'
                  owner == loans[r.loan_id].owner_id = get_current_user(r.key).id
              IN  /\ ~LoanExists(r.loan_id) => r.status = 404
                  /\ (LoanExists(r.loan_id) /\ ~owner) => r.status = 403
                  /\ (LoanExists(r.loan_id) /\ owner /\ ~EmailRegistered(r.email))
                         => r.status = 404
                  /\ (LoanExists(r.loan_id) /\ owner
                          /\ r.email = get_current_user(r.key).email)
                         => r.status = 400
                  /\ r.status \in {400, 403, 404} => shares' = shares
      ]_vars

\* C9 witness: a user the loan was shared with tried to share it on and was
\* answered 403.
ShareLoanErrorsWitness ==
    /\ resp.op = "share_loan"
    /\ resp.status = 403
    /\ ShareExists(resp.loan_id, get_current_user(resp.key).id)

\* C10: get_summary rejects every out-of-range month before the engine is
\* called: month <= 0 with 422, month > the loan's term_months with 400, so
\* summarize_schedule_for_month is only called with 1 <= month <= term_months.
SummaryMonthGuard ==
    resp.op = "get_summary" =>
        /\ (Authenticated(resp.key) /\ resp.month <= 0) => resp.status = 422
        /\ (/\ Authenticated(resp.key)
            /\ LoanExists(resp.loan_id)
            /\ CanSee(get_current_user(resp.key), loans[resp.loan_id])
            /\ resp.month > loans[resp.loan_id].term_months)
           => resp.status = 400
        /\ resp.status \in {400, 422} => resp.engine = << >>
        /\ \A i \in 1..Len(resp.engine) :
              /\ 1 <= resp.engine[i].month
              /\ resp.engine[i].month <= resp.engine[i].term_months
              /\ resp.engine[i].term_months = loans[resp.loan_id].term_months

\* C10 witness: a user who can see the loan asked for a month past its term
\* and was answered 400 with no engine call.
SummaryMonthGuardWitness ==
    /\ resp.op = "get_summary"
    /\ resp.status = 400
    /\ resp.month > loans[resp.loan_id].term_months
    /\ resp.engine = << >>

\* principal > 0, rate >= 0, term_months >= 1
ValidLoanTerms(t) ==
    /\ t.amount > 0
    /\ t.annual_interest_rate >= 0
    /\ t.term_months >= 1

\* C11: create_loan rejects (422, no loan stored) every request with
\* amount <= 0, annual_interest_rate < 0 or term_months < 1, so every stored
\* loan has amount > 0, rate >= 0 and term_months >= 1, and the engine is
\* only ever called (a 200 of get_schedule or get_summary) on valid terms.
LoanValidation ==
    [][/\ \A l \in Rows(loans') : ValidLoanTerms(l)
       /\ (/\ resp'.op = "create_loan"
           /\ Authenticated(resp'.key)
           /\ ~ValidLoanTerms(resp'.payload))
          => (resp'.status = 422 /\ loans' = loans)
       /\ (resp'.op \in {"get_schedule", "get_summary"} /\ resp'.status = 200)
          => ValidLoanTerms(loans[resp'.loan_id])
      ]_vars

\* C11 witness: with a loan already stored, a request with invalid terms
\* was answered 422.
LoanValidationWitness ==
    /\ resp.op = "create_loan"
    /\ resp.status = 422
    /\ ~ValidLoanTerms(resp.payload)
    /\ Len(loans) >= 1

\* C12: get_schedule, get_summary and list_loans, with the engine calls
\* they make, leave the stored users, loans and loan shares unchanged
\* whether they succeed or fail, and under any interleaving with the
\* requests in flight the result of each depends only on its inputs: the
\* schedule and the summary returned are the engine's for the stored
\* loan's terms and the month asked for.
ReadsLeaveStoreUnchanged ==
    [][resp'.op \in {"get_schedule", "get_summary", "list_loans"} =>
          /\ users' = users
          /\ loans' = loans
          /\ shares' = shares
          /\ (resp'.op = "get_schedule" /\ resp'.status = 200) =>
                 LET loan == loans[resp'.loan_id]
                 IN  resp'.body = build_amortization_schedule(loan.amount,
                         loan.annual_interest_rate, loan.term_months)
          /\ (resp'.op = "get_summary" /\ resp'.status = 200) =>
                 LET loan == loans[resp'.loan_id]
                 IN  resp'.body = summarize_schedule_for_month(
                         build_amortization_schedule(loan.amount,
                             loan.annual_interest_rate, loan.term_months),
                         resp'.month, loan.amount, loan.annual_interest_rate)
      ]_vars

\* C12 witness: a summary was returned while another request was between
\* its queries and its commit and a share was stored.
ReadsLeaveStoreUnchangedWitness ==
    /\ resp.op = "get_summary"
    /\ resp.status = 200
    /\ pending # EmptyBag
    /\ shares # EmptyBag

\* C13: share_loan is idempotent: after any interleaving of share_loan
\* requests at most one LoanShare row exists for each (loan, user) pair,
\* and a share of an already shared pair succeeds (204) without changing
\* the stored shares.
ShareLoanIdempotent ==
    [][/\ \A row \in BagToSet(shares') : CopiesIn(row, shares') <= 1
       /\ (/\ resp'.op = "share_loan"
           /\ resp'.status = 204
           /\ ShareExists(resp'.loan_id, UserByEmail(resp'.email).id))
          => shares' = shares
      ]_vars

\* C14: after any interleaving of create_user requests no two stored users
\* have the same email, and a create_user request that completes for an
\* email that is already registered fails (400 from the handler's check,
\* 500 from the unique constraint at the commit) and leaves the stored
\* users, API keys included, unchanged.
UniqueEmails ==
    [][/\ \A i, j \in 1..Len(users') :
             users'[i].email = users'[j].email => i = j
       /\ (resp'.op = "create_user" /\ EmailRegistered(resp'.email))
          => (resp'.status \in {400, 500} /\ users' = users)
      ]_vars

\* a request that passed the handler's check loses the race and is stopped
\* by the constraint
UniqueEmailsWitness ==
    /\ resp.op = "create_user"
    /\ resp.status = 500
    /\ \E i \in 1..Len(users) : users[i].email = resp.email

\* C15 as stated: for any month in 1..term_months the summary's
\* principal_balance and total_principal_paid add up to the principal
\* exactly.
PrincipalSplitExact ==
    \A s \in engineSummaries :
        s.principal_balance + s.total_principal_paid = engineTerms.amount

\* C15: for any month in 1..term_months the summary's principal_balance and
\* total_principal_paid add up to the principal or to one cent more, never
\* to less: each is rounded half-up on its own, and when both end on a half
\* cent both go up.
PrincipalSplitWithinCent ==
    \A s \in engineSummaries :
        s.principal_balance + s.total_principal_paid - engineTerms.amount
            \in 0..1

\* a summary of an interest-bearing loan whose two outputs were both rounded
\* up from a half cent
PrincipalSplitWitness ==
    /\ engineTerms.rate # 0
    /\ \E s \in engineSummaries :
          /\ s.principal_balance > 0
          /\ s.total_principal_paid > 0
          /\ s.principal_balance + s.total_principal_paid
                = engineTerms.amount + 1

=============================================================================
